---- MODULE Spec2Model ----
(***************************************************************************)
(* A model of four parts of valora:                                        *)
(*   amicola/src/monotonics.rs  Segment::from_link and the Curve contract  *)
(*   src/gpu/shaders.rs         GpuShader::produce and GpuShader::draw     *)
(*   src/sketch/mod.rs          the sketch frame loop                      *)
(* Each part has its own specification (SpecLink, SpecCurve, SpecShader,   *)
(* SpecSketch); the variables of the other parts stay at their idle value. *)
(***************************************************************************)
EXTENDS Integers, Sequences, FiniteSets, TLC

VARIABLES
    link,        \* the (previous, current) pair of path commands handed to from_link
    segments,    \* what from_link returned for it
    curve,       \* the Segment the Curve operations are called on
    query,       \* the last Curve call: operation and argument
    sample,      \* what that call returned
    spec_in,     \* the Shader spec last given to GpuShader::produce
    shader,      \* what produce returned: Ok(GpuShader) or Err
    gpuLog,      \* the GPU operations that call of produce performed, in order
    drawn,       \* what the last GpuShader::draw did
    cfg,         \* SketchCfg
    context,     \* SketchContext: frame, current_seed
    render,      \* the Render the loop holds
    cycle,       \* the loop variable `cycle`: the pending Gpu::events result
    status,      \* where sketch() is: "start", "running", "closed", "err"
    cycles,      \* number of loop iterations entered
    last,        \* what the last loop iteration did
    saves        \* frame indices handed to save_frame since the last reseed

linkVars   == <<link, segments>>
curveVars  == <<curve, query, sample>>
shaderVars == <<spec_in, shader, gpuLog, drawn>>
sketchVars == <<cfg, context, render, cycle, status, cycles, last, saves>>
vars == <<linkVars, curveVars, shaderVars, sketchVars>>

---------------------------------------------------------------------------
(* Bounds of the model *)

MaxCoord == 1        \* point coordinates range over 0..MaxCoord
QDen == 2            \* sample queries are multiples of 1/QDen
MaxFew == 1          \* site lists of 0..MaxFew sites and, beside these,
MaxOver == 1         \* of MAX_VORONOI_SITES - 1 .. MAX_VORONOI_SITES + MaxOver sites
NTweens == 3         \* distinct strengths, colours and offsets of generated sites
MaxDrawFrame == 2    \* GpuShader::draw is called with frame in 0..MaxDrawFrame
MaxLimit == 2        \* cfg.frame_limit ranges over 0..MaxLimit
NSeeds == 2          \* seeds (cfg.seed, random()) range over 0..NSeeds-1
MaxEvents == 1       \* window events delivered to one loop iteration
MaxCycles == 3       \* loop iterations of one run of sketch()

---------------------------------------------------------------------------
(* Option<T> *)

None == [some |-> FALSE]
Some(v) == [some |-> TRUE, val |-> v]

Min2(a, b) == IF a <= b THEN a ELSE b
Max2(a, b) == IF a >= b THEN a ELSE b

---------------------------------------------------------------------------
(* Path commands and links (path::Segment) *)

Coords == 0..MaxCoord
Points == Coords \X Coords
MoveTo(p) == [cmd |-> "MoveTo", p |-> p]
LineTo(p) == [cmd |-> "LineTo", p |-> p]
PathSegments == {MoveTo(p) : p \in Points} \cup {LineTo(p) : p \in Points}
Links == PathSegments \X PathSegments

(* Bounds of a line primitive: the box spanned by its two endpoints. *)
BoundsOf(a, b) ==
    [min |-> <<Min2(a[1], b[1]), Min2(a[2], b[2])>>,
     max |-> <<Max2(a[1], b[1]), Max2(a[2], b[2])>>]

(* LineSegment::new_rasterable: construction fails for a degenerate edge,  *)
(* one of zero length.                                                     *)
new_rasterable(start, end) ==
    IF start = end
    THEN None
    ELSE Some([a |-> start, b |-> end, bounds |-> BoundsOf(start, end)])

(* Segment::from(ls): the LineSegment variant of the dispatch enum. *)
SegmentFrom(ls) == [variant |-> "LineSegment", ls |-> ls]

(* The value a call returns: the Vec, or a panic. *)
Returned(vec) == [panicked |-> FALSE, vec |-> vec]
Panicked == [panicked |-> TRUE, vec |-> <<>>]

(* mutant: .unwrap() in place of .unwrap_or_default() *)
MapVecUnwrap(opt) ==
    IF opt.some THEN Returned(<<SegmentFrom(opt.val)>>) ELSE Panicked

(* .map(|ls| vec![Self::from(ls)]).unwrap_or_default() *)
MapVecOrDefault(opt) ==
    IF opt.some THEN Returned(<<SegmentFrom(opt.val)>>) ELSE Returned(<<>>)

(* mutant: the arm for a current MoveTo only matches a previous MoveTo;    *)
(* a (LineTo, MoveTo) link is decomposed like an edge.                     *)
from_link_move_edge(l) ==
    IF l[2].cmd = "LineTo" \/ l[1].cmd = "LineTo"
    THEN MapVecOrDefault(new_rasterable(l[1].p, l[2].p))
    ELSE Returned(<<>>)

(* mutant: the primitive is built with an infallible constructor *)
from_link_infallible(l) ==
    IF l[2].cmd = "LineTo"
    THEN Returned(<<SegmentFrom([a |-> l[1].p, b |-> l[2].p,
                                 bounds |-> BoundsOf(l[1].p, l[2].p)])>>)
    ELSE Returned(<<>>)

(* mutant: only the (LineTo, LineTo) pattern builds an edge *)
from_link_lineto_only(l) ==
    IF l[1].cmd = "LineTo" /\ l[2].cmd = "LineTo"
    THEN MapVecOrDefault(new_rasterable(l[1].p, l[2].p))
    ELSE Returned(<<>>)

(* Segment::from_link *)
from_link(l) ==
    IF l[2].cmd = "LineTo" /\ l[1].cmd \in {"MoveTo", "LineTo"}
    THEN MapVecOrDefault(new_rasterable(l[1].p, l[2].p))
    ELSE Returned(<<>>)

NotCalled == [panicked |-> FALSE, vec |-> <<>>, called |-> FALSE]
Called(r) == [panicked |-> r.panicked, vec |-> r.vec, called |-> TRUE]

LinkIdle == link = <<MoveTo(<<0, 0>>), MoveTo(<<0, 0>>)>> /\ segments = NotCalled

LinkInit == link \in Links /\ segments = NotCalled

(* The decomposer is handed the link. *)
FromLink ==
    /\ UNCHANGED <<curveVars, shaderVars, sketchVars>>
    /\ ~segments.called
    /\ segments' = Called(from_link(link))
    /\ UNCHANGED link

(* The path supplies its next link. *)
NextLink ==
    /\ UNCHANGED <<curveVars, shaderVars, sketchVars>>
    /\ segments.called
    /\ link' \in Links
    /\ segments' = NotCalled

---------------------------------------------------------------------------
(* The Curve contract, for the line primitive, and the Segment dispatch.   *)
(* A query value is the rational n / QDen, given by its numerator n; a     *)
(* rational result is a pair <<numerator, denominator>>, denominator > 0.  *)

TQueries == -1..(QDen + 1)
AxisQueries == -1..(MaxCoord * QDen + 1)

Rat(n, d) == IF d < 0 THEN <<-n, -d>> ELSE <<n, d>>
InUnit(r) == 0 <= r[1] /\ r[1] <= r[2]

(* Crossing of the segment with the axis-parallel line at n / QDen, where  *)
(* k is the queried axis (1 = x, 2 = y) and o the other one.  None outside *)
(* the bounds on axis k, and None where the segment is parallel to the     *)
(* query line (no single crossing).                                        *)
LineSegment_sample_axis(ls, k, o, n) ==
    IF n < ls.bounds.min[k] * QDen \/ n > ls.bounds.max[k] * QDen
    THEN None
    ELSE IF ls.a[k] = ls.b[k]
    THEN None
    ELSE LET t == Rat(n - ls.a[k] * QDen, (ls.b[k] - ls.a[k]) * QDen)
         IN  Some([axis |-> <<ls.a[o] * t[2] + t[1] * (ls.b[o] - ls.a[o]), t[2]>>,
                   t |-> t])

(* Curve for LineSegment *)
LineSegment_sample_t(ls, n) ==
    IF n < 0 \/ n > QDen
    THEN None
    ELSE Some(<<<<ls.a[1] * QDen + n * (ls.b[1] - ls.a[1]), QDen>>,
                <<ls.a[2] * QDen + n * (ls.b[2] - ls.a[2]), QDen>>>>)
LineSegment_sample_x(ls, n) == LineSegment_sample_axis(ls, 1, 2, n)
LineSegment_sample_y(ls, n) == LineSegment_sample_axis(ls, 2, 1, n)
LineSegment_bounds(ls) == ls.bounds

(* mutant: the dispatch of sample_x forwards to the variant's sample_y *)
sample_x_as_y(seg, n) == CASE seg.variant = "LineSegment" -> LineSegment_sample_y(seg.ls, n)

(* #[enum_dispatch] Curve for Segment: forwards to the variant it holds. *)
sample_t(seg, n) == CASE seg.variant = "LineSegment" -> LineSegment_sample_t(seg.ls, n)
sample_x(seg, n) == CASE seg.variant = "LineSegment" -> LineSegment_sample_x(seg.ls, n)
sample_y(seg, n) == CASE seg.variant = "LineSegment" -> LineSegment_sample_y(seg.ls, n)
bounds(seg) == CASE seg.variant = "LineSegment" -> LineSegment_bounds(seg.ls)

(* The primitives the decomposer produces over all links. *)
Curves == {from_link(l).vec[1] : l \in {m \in Links : from_link(m).vec # <<>>}}

NoQuery == [op |-> "none", n |-> 0]
CurveIdle ==
    /\ curve = SegmentFrom([a |-> <<0, 0>>, b |-> <<0, 0>>, bounds |-> BoundsOf(<<0, 0>>, <<0, 0>>)])
    /\ query = NoQuery
    /\ sample = None

CurveInit == curve \in Curves /\ query = NoQuery /\ sample = None

SampleT ==
    \E n \in TQueries :
        /\ UNCHANGED <<linkVars, shaderVars, sketchVars>>
        /\ query' = [op |-> "sample_t", n |-> n]
        /\ sample' = sample_t(curve, n)
        /\ UNCHANGED curve

SampleX ==
    \E n \in AxisQueries :
        /\ UNCHANGED <<linkVars, shaderVars, sketchVars>>
        /\ query' = [op |-> "sample_x", n |-> n]
        /\ sample' = sample_x(curve, n)
        /\ UNCHANGED curve

SampleY ==
    \E n \in AxisQueries :
        /\ UNCHANGED <<linkVars, shaderVars, sketchVars>>
        /\ query' = [op |-> "sample_y", n |-> n]
        /\ sample' = sample_y(curve, n)
        /\ UNCHANGED curve

GetBounds ==
    /\ UNCHANGED <<linkVars, shaderVars, sketchVars>>
    /\ query' = [op |-> "bounds", n |-> 0]
    /\ sample' = Some(bounds(curve))
    /\ UNCHANGED curve

---------------------------------------------------------------------------
(* GpuShader: produce (the Factory) and draw *)

MAX_VORONOI_SITES == 1024

(* f32 values are kept symbolic: zero, a site's premultiplied colour, its  *)
(* position scaled to the framebuffer, a strength tweened at a frame.      *)
Zero == <<"zero">>
Premultiplied(color) == <<"color", color>>
Scaled(site) == <<"position", site[1], site[2]>>
TweenAt(tw, frame) == <<"tween", tw, frame>>

(* The site lists given to produce: n sites, varied by k. *)
SitesOf(n, k) ==
    [i \in 1..n |-> [strength |-> (i + k) % NTweens,
                     color |-> (i * (k + 1)) % NTweens,
                     site |-> <<i % 2, k % 2>>]]
SiteCounts ==
    (0..MaxFew) \cup {MAX_VORONOI_SITES - 1 + d : d \in 0..(MaxOver + 1)}
ShaderSpecs ==
    {[kind |-> "Default"], [kind |-> "Texture"]}
        \cup {[kind |-> "Voronoi", sites |-> SitesOf(n, k)] :
                 n \in SiteCounts, k \in 0..(NTweens - 1)}

OkShader(sh) == [ok |-> TRUE, shader |-> sh]
Err(msg) == [ok |-> FALSE, err |-> msg]
Produced(result, log) == [result |-> result, log |-> log]

(* The capacity test of produce. *)
TooManySites(sites) == Len(sites) > MAX_VORONOI_SITES

(* The GpuVoronoi the loop fills.  site_count is sites.len() as u32: the   *)
(* cast keeps every length below 2^32, so every length of the model.       *)
BuildVoronoi(sites) ==
    [kind |-> "Voronoi",
     positions |-> [i \in 0..(MAX_VORONOI_SITES - 1) |->
                       IF i < Len(sites) THEN Scaled(sites[i + 1].site) ELSE Zero],
     colors |-> [i \in 0..(MAX_VORONOI_SITES - 1) |->
                       IF i < Len(sites) THEN Premultiplied(sites[i + 1].color) ELSE Zero],
     strengths |-> [i \in 1..Len(sites) |-> sites[i].strength],
     site_count |-> Len(sites)]

(* The three UniformBuffer::new calls of the struct literal, in order; the *)
(* fail-th one (1..3) fails, 0 for none.                                   *)
AllocNames == <<"UniformBuffer::new(positions)", "UniformBuffer::new(colors)",
                "UniformBuffer::new(strengths_buffer)">>
AllocLog(fail) == IF fail = 0 THEN AllocNames ELSE SubSeq(AllocNames, 1, fail)

(* mutant: the capacity test comes after the framebuffer query *)
ProduceVoronoiLate(sites, fail) ==
    IF TooManySites(sites)
    THEN Produced(Err("at most 1024 sites are supported"),
                  <<"get_framebuffer_dimensions">>)
    ELSE Produced(IF fail = 0 THEN OkShader(BuildVoronoi(sites)) ELSE Err("gpu"),
                  <<"get_framebuffer_dimensions">> \o AllocLog(fail))

(* The Shader::Voronoi arm of produce. *)
ProduceVoronoi(sites, fail) ==
    IF TooManySites(sites)
    THEN Produced(Err("at most 1024 sites are supported"), <<>>)
    ELSE Produced(IF fail = 0 THEN OkShader(BuildVoronoi(sites)) ELSE Err("gpu"),
                  <<"get_framebuffer_dimensions">> \o AllocLog(fail))

(* GpuShader::produce *)
produce(spec, fail) ==
    CASE spec.kind = "Default" -> Produced(OkShader([kind |-> "Default"]), <<>>)
      [] spec.kind = "Texture" ->
            Produced(IF fail = 0 THEN OkShader([kind |-> "Texture"]) ELSE Err("gpu"),
                     <<"Texture2d::new">>)
      [] spec.kind = "Voronoi" -> ProduceVoronoi(spec.sites, fail)

(* mutant: the range of the upload loop is inclusive *)
UploadRangeInclusive(site_count) == 0..site_count

(* The range of the upload loop of draw. *)
UploadRange(site_count) == 0..(site_count - 1)

(* The Voronoi arm of draw, up to strengths_buffer.write: the array it     *)
(* writes, or a panic when an index is out of bounds of the array or of    *)
(* the strengths Vec.                                                      *)
UploadStrengths(gv, frame) ==
    IF \E i \in UploadRange(gv.site_count) :
           i >= MAX_VORONOI_SITES \/ i >= Len(gv.strengths)
    THEN [panicked |-> TRUE, written |-> <<>>]
    ELSE [panicked |-> FALSE,
          written |-> [i \in 0..(MAX_VORONOI_SITES - 1) |->
                          IF i \in UploadRange(gv.site_count)
                          THEN TweenAt(gv.strengths[i + 1], frame)
                          ELSE Zero]]

NotDrawn == [result |-> "none", frame |-> 0, written |-> <<>>]

ShaderIdle ==
    /\ spec_in = [kind |-> "Default"]
    /\ shader = Err("none")
    /\ gpuLog = <<>>
    /\ drawn = NotDrawn

ShaderInit == ShaderIdle

Produce ==
    \E spec \in ShaderSpecs, fail \in 0..3 :
        LET r == produce(spec, fail) IN
            /\ UNCHANGED <<linkVars, curveVars, sketchVars>>
            /\ spec_in' = spec
            /\ shader' = r.result
            /\ gpuLog' = r.log
            /\ drawn' = NotDrawn

(* GpuShader::draw; surface.draw succeeds or fails. *)
Draw ==
    \E frame \in 0..MaxDrawFrame, surfaceOk \in BOOLEAN :
        /\ UNCHANGED <<linkVars, curveVars, sketchVars>>
        /\ shader.ok
        /\ LET up == IF shader.shader.kind = "Voronoi"
                     THEN UploadStrengths(shader.shader, frame)
                     ELSE [panicked |-> FALSE, written |-> <<>>]
           IN  drawn' = [result |-> IF up.panicked THEN "panic"
                                    ELSE IF surfaceOk THEN "ok" ELSE "err",
                         frame |-> frame,
                         written |-> up.written]
        /\ UNCHANGED <<spec_in, shader, gpuLog>>

---------------------------------------------------------------------------
(* The sketch frame loop *)

Seeds == 0..(NSeeds - 1)
Cfgs ==
    [root_frame_filename : {None, Some("out")},
     frame_limit : 0..MaxLimit,
     seed : {None} \cup {Some(x) : x \in Seeds},
     still : BOOLEAN]

(* WindowEvents: ReceivedCharacter('r'), ReceivedCharacter of another      *)
(* character, any other event.                                             *)
EventKinds == {"r", "x", "other"}
EventLists == UNION {[1..n -> EventKinds] : n \in 0..MaxEvents}
(* Gpu::events: the events of the next cycle, or None. *)
EventResults == {None} \cup {Some(e) : e \in EventLists}

(* events.iter().find(ReceivedCharacter('r')).is_some() *)
HasR(events) == \E i \in 1..Len(events) : events[i] = "r"

(* Render::produce(sketch.sketch(cfg, rng(seed))) and Render::step *)
RenderOf(seed) == [seed |-> seed, step |-> -1]
Step(rend, frame) == [seed |-> rend.seed, step |-> frame]

(* mutant: the still test lets frame 1 through *)
DrawCheckLate(still, frame) == ~(still /\ frame > 1)

(* The draw test of the loop. *)
DrawCheck(still, frame) == ~(still /\ frame > 0)

(* mutant: the limit is inclusive *)
SaveCheckInclusive(frame, frame_limit) == frame <= frame_limit

(* The frame-limit test of the save. *)
SaveCheck(frame, frame_limit) == frame < frame_limit

NoCycle ==
    [first |-> FALSE, r |-> FALSE, reachedCheck |-> FALSE, checkFrame |-> 0,
     stepped |-> FALSE, drawn |-> FALSE, saved |-> FALSE, completed |-> FALSE]

SketchIdle ==
    /\ cfg = [root_frame_filename |-> None, frame_limit |-> 0, seed |-> None,
              still |-> FALSE]
    /\ context = [frame |-> 0, current_seed |-> 0]
    /\ render = RenderOf(0)
    /\ cycle = None
    /\ status = "idle"
    /\ cycles = 0
    /\ last = NoCycle
    /\ saves = <<>>

SketchInit ==
    /\ cfg \in Cfgs
    /\ context = [frame |-> 0, current_seed |-> 0]
    /\ render = RenderOf(0)
    /\ cycle = None
    /\ status = "start"
    /\ cycles = 0
    /\ last = NoCycle
    /\ saves = <<>>

(* sketch() up to the loop: Gpu::new, the seed, the first render, the      *)
(* first Gpu::events.  fail names the call that returns Err, if any.       *)
Setup ==
    \E rnd \in Seeds, fail \in {"none", "gpu", "sketch", "render"},
       first \in EventResults :
        /\ UNCHANGED <<linkVars, curveVars, shaderVars>>
        /\ status = "start"
        /\ IF fail = "gpu"
           THEN /\ status' = "err"
                /\ UNCHANGED <<context, render, cycle>>
           ELSE LET seed == IF cfg.seed.some THEN cfg.seed.val ELSE rnd IN
                /\ context' = [frame |-> 0, current_seed |-> seed]
                /\ IF fail = "none"
                   THEN /\ render' = RenderOf(seed)
                        /\ cycle' = first
                        /\ status' = IF first.some THEN "running" ELSE "closed"
                   ELSE /\ status' = "err"
                        /\ UNCHANGED <<render, cycle>>
        /\ UNCHANGED <<cfg, cycles, last, saves>>

(* One iteration of the loop, on the events in `cycle`.  rnd is random(),  *)
(* fail the call that returns Err (none when the iteration does not reach  *)
(* that call), next the Gpu::events result at the end of the iteration.    *)
Cycle ==
    \E rnd \in Seeds,
       fail \in {"none", "sketch", "render", "step", "mkdir", "save"},
       next \in EventResults :
        /\ UNCHANGED <<linkVars, curveVars, shaderVars>>
        /\ status = "running"
        /\ cycle.some
        /\ cycles < MaxCycles
        /\ LET r == HasR(cycle.val)
               ctx1 == IF r THEN [frame |-> 0, current_seed |-> rnd] ELSE context
               rebuildFails == r /\ fail \in {"sketch", "render"}
               render1 == IF r THEN RenderOf(rnd) ELSE render
               saves1 == IF r THEN <<>> ELSE saves
               check == DrawCheck(cfg.still, ctx1.frame)
               stepFails == check /\ fail = "step"
               toSave == /\ check
                         /\ cfg.root_frame_filename.some
                         /\ SaveCheck(ctx1.frame, cfg.frame_limit)
               mkdirFails == toSave /\ fail = "mkdir"
               saveFails == toSave /\ fail = "save"
               saveCalled == toSave /\ ~mkdirFails
               aborted == rebuildFails \/ stepFails \/ mkdirFails \/ saveFails
           IN  /\ cycles' = cycles + 1
               /\ last' = [first |-> cycles = 0,
                           r |-> r,
                           reachedCheck |-> ~rebuildFails,
                           checkFrame |-> ctx1.frame,
                           stepped |-> ~rebuildFails /\ check,
                           drawn |-> ~rebuildFails /\ check /\ ~stepFails,
                           saved |-> ~rebuildFails /\ ~stepFails /\ saveCalled,
                           completed |-> ~aborted]
               /\ IF rebuildFails
                  THEN /\ context' = ctx1
                       /\ saves' = saves1
                       /\ status' = "err"
                       /\ UNCHANGED <<render, cycle>>
                  ELSE IF stepFails
                  THEN /\ context' = ctx1
                       /\ render' = render1
                       /\ saves' = saves1
                       /\ status' = "err"
                       /\ UNCHANGED cycle
                  ELSE LET render2 == IF check THEN Step(render1, ctx1.frame)
                                      ELSE render1
                           saves2 == IF saveCalled
                                     THEN Append(saves1, ctx1.frame) ELSE saves1
                       IN  /\ render' = render2
                           /\ saves' = saves2
                           /\ IF mkdirFails \/ saveFails
                              THEN /\ context' = ctx1
                                   /\ status' = "err"
                                   /\ UNCHANGED cycle
                              ELSE /\ context' = [frame |-> ctx1.frame + 1,
                                                  current_seed |-> ctx1.current_seed]
                                   /\ cycle' = next
                                   /\ status' = IF next.some THEN "running"
                                                ELSE "closed"
        /\ UNCHANGED cfg

---------------------------------------------------------------------------
(* Specifications *)

InitLink == LinkInit /\ CurveIdle /\ ShaderIdle /\ SketchIdle
NextLinkPart == FromLink \/ NextLink
SpecLink == InitLink /\ [][NextLinkPart]_vars

InitCurve == LinkIdle /\ CurveInit /\ ShaderIdle /\ SketchIdle
NextCurve == SampleT \/ SampleX \/ SampleY \/ GetBounds
SpecCurve == InitCurve /\ [][NextCurve]_vars

InitShader == LinkIdle /\ CurveIdle /\ ShaderInit /\ SketchIdle
NextShader == Produce \/ Draw
SpecShader == InitShader /\ [][NextShader]_vars

InitSketch == LinkIdle /\ CurveIdle /\ ShaderIdle /\ SketchInit
NextSketch == Setup \/ Cycle
SpecSketch == InitSketch /\ [][NextSketch]_vars

---------------------------------------------------------------------------
(* Properties of Segment::from_link, under SpecLink *)

(* What building one line primitive from start to end gives, as a list. *)
EdgeFrom(start, end) ==
    IF new_rasterable(start, end).some
    THEN <<SegmentFrom(new_rasterable(start, end).val)>>
    ELSE <<>>

(* C1: a link whose current command is MoveTo decomposes to the empty      *)
(* list, whatever the previous command and the two points are.             *)
C1_MoveTermination ==
    (segments.called /\ link[2].cmd = "MoveTo")
        => (~segments.panicked /\ segments.vec = <<>>)

C1_Witness ==
    /\ segments.called
    /\ link[1].cmd = "LineTo"
    /\ link[2].cmd = "MoveTo"
    /\ link[1].p # link[2].p

(* C2: a link whose current command is LineTo(end) and whose previous      *)
(* command carries the same point decomposes to the empty list.            *)
C2_DegenerateEdge ==
    (segments.called /\ link[2].cmd = "LineTo" /\ link[1].p = link[2].p)
        => segments.vec = <<>>

C2_Witness ==
    /\ segments.called
    /\ link[1].cmd = "LineTo"
    /\ link[2].cmd = "LineTo"
    /\ link[1].p = link[2].p
    /\ segments.vec = <<>>

(* C3: from_link returns for every link, with a list of zero or one        *)
(* primitives; a failed construction gives the empty list, not a fault.    *)
C3_Total ==
    segments.called
        => /\ ~segments.panicked
           /\ Len(segments.vec) <= 1
           /\ (link[2].cmd = "LineTo" /\ ~new_rasterable(link[1].p, link[2].p).some)
                  => segments.vec = <<>>

C3_Witness ==
    /\ segments.called
    /\ link[1].cmd = "MoveTo"
    /\ link[2].cmd = "LineTo"
    /\ ~new_rasterable(link[1].p, link[2].p).some
    /\ ~segments.panicked

(* C4: for a current LineTo(end), a previous MoveTo(start) and a previous  *)
(* LineTo(start) give the same list: the primitive built from start to     *)
(* end, if it can be built.                                                *)
C4_PreviousKind ==
    (segments.called /\ link[2].cmd = "LineTo")
        => /\ ~segments.panicked
           /\ segments.vec = EdgeFrom(link[1].p, link[2].p)
           /\ from_link(<<MoveTo(link[1].p), link[2]>>)
                  = from_link(<<LineTo(link[1].p), link[2]>>)

C4_Witness ==
    /\ segments.called
    /\ link[1].cmd = "MoveTo"
    /\ link[2].cmd = "LineTo"
    /\ Len(segments.vec) = 1
    /\ segments.vec[1].ls.a = link[1].p
    /\ segments.vec[1].ls.b = link[2].p

---------------------------------------------------------------------------
(* Properties of the Curve operations, under SpecCurve *)

(* C7: a sample outside the primitive's range is None (t outside [0,1], x  *)
(* outside the x-bounds, y outside the y-bounds), and a returned           *)
(* Intersection has t within [0,1].                                        *)
C7_OutOfDomain ==
    /\ (query.op = "sample_t" /\ (query.n < 0 \/ query.n > QDen)) => ~sample.some
    /\ (query.op = "sample_x"
          /\ (query.n < bounds(curve).min[1] * QDen
                \/ query.n > bounds(curve).max[1] * QDen)) => ~sample.some
    /\ (query.op = "sample_y"
          /\ (query.n < bounds(curve).min[2] * QDen
                \/ query.n > bounds(curve).max[2] * QDen)) => ~sample.some
    /\ (query.op \in {"sample_x", "sample_y"} /\ sample.some)
          => InUnit(sample.val.t)

C7_Witness ==
    /\ query.op = "sample_x"
    /\ curve.ls.a[1] # curve.ls.b[1]
    /\ query.n > bounds(curve).max[1] * QDen
    /\ ~sample.some

---------------------------------------------------------------------------
(* Properties of GpuShader, under SpecShader *)

CapacityError == Err("at most 1024 sites are supported")

(* C5: for a Voronoi spec of more than MAX_VORONOI_SITES sites produce     *)
(* returns the capacity error, having performed no GPU operation, and      *)
(* builds no GpuShader.                                                    *)
C5_CapacityBeforeGpu ==
    (spec_in.kind = "Voronoi" /\ Len(spec_in.sites) > MAX_VORONOI_SITES)
        => (shader = CapacityError /\ gpuLog = <<>>)

C5_Witness ==
    /\ spec_in.kind = "Voronoi"
    /\ Len(spec_in.sites) = MAX_VORONOI_SITES + 1
    /\ ~shader.ok

(* C10: a GpuVoronoi that produce built has site_count = number of sites   *)
(* given = strengths.len() <= MAX_VORONOI_SITES; lists of up to            *)
(* MAX_VORONOI_SITES sites are not refused; draw indexes nothing out of    *)
(* bounds and writes the tweened strength below site_count, zero above.    *)
C10_SiteCount ==
    /\ (shader.ok /\ shader.shader.kind = "Voronoi")
          => /\ shader.shader.site_count = Len(spec_in.sites)
             /\ shader.shader.site_count = Len(shader.shader.strengths)
             /\ shader.shader.site_count <= MAX_VORONOI_SITES
    /\ (spec_in.kind = "Voronoi" /\ Len(spec_in.sites) <= MAX_VORONOI_SITES)
          => (shader.ok \/ (shader = Err("gpu") /\ Len(gpuLog) > 1))
    /\ drawn.result # "panic"
    /\ (drawn.result \in {"ok", "err"} /\ shader.shader.kind = "Voronoi")
          => \A i \in 0..(MAX_VORONOI_SITES - 1) :
                 drawn.written[i] =
                     IF i < shader.shader.site_count
                     THEN TweenAt(spec_in.sites[i + 1].strength, drawn.frame)
                     ELSE Zero

C10_Witness ==
    /\ drawn.result = "ok"
    /\ shader.shader.kind = "Voronoi"
    /\ shader.shader.site_count = MAX_VORONOI_SITES
    /\ drawn.written[MAX_VORONOI_SITES - 1]
           = TweenAt(spec_in.sites[MAX_VORONOI_SITES].strength, drawn.frame)

---------------------------------------------------------------------------
(* Properties of the sketch frame loop, under SpecSketch *)

(* C8: with cfg.still, an iteration steps and draws the render exactly     *)
(* when frame is 0 at the draw test, which is the case exactly in the      *)
(* first iteration and in one that received 'r' (after the reseed and the  *)
(* rebuild of the render); an iteration that runs to its end leaves frame  *)
(* one above its value at the draw test, drawn or not.                     *)
C8_StillDraw ==
    cfg.still
        => /\ last.reachedCheck
                 => /\ last.stepped <=> last.checkFrame = 0
                    /\ last.checkFrame = 0 <=> (last.first \/ last.r)
                    /\ last.drawn => last.stepped
                    /\ (last.stepped /\ ~last.drawn) => status = "err"
                    /\ last.r => render.seed = context.current_seed
           /\ last.completed
                 => /\ last.reachedCheck
                    /\ last.drawn <=> last.checkFrame = 0
                    /\ context.frame = last.checkFrame + 1

C8_Witness ==
    /\ cfg.still
    /\ cycles = MaxCycles
    /\ last.completed
    /\ last.r
    /\ last.drawn
    /\ context.frame = 1

(* C9: save_frame is called only in an iteration that stepped and drew,    *)
(* with root_frame_filename set and frame below frame_limit; since the     *)
(* last reseed no index >= frame_limit was saved, none twice, and at most  *)
(* frame_limit in all.                                                     *)
C9_Saves ==
    /\ last.saved
          => /\ last.stepped /\ last.drawn
             /\ cfg.root_frame_filename.some
             /\ last.checkFrame < cfg.frame_limit
             /\ Len(saves) > 0 /\ saves[Len(saves)] = last.checkFrame
    /\ \A i \in 1..Len(saves) : saves[i] < cfg.frame_limit
    /\ \A i, j \in 1..Len(saves) : i # j => saves[i] # saves[j]
    /\ Len(saves) <= cfg.frame_limit

C9_Witness ==
    /\ ~cfg.still
    /\ cfg.frame_limit = 2
    /\ Len(saves) = 2
    /\ last.completed
    /\ last.drawn
    /\ ~last.saved
    /\ last.checkFrame = cfg.frame_limit

====
